---- MODULE Spec2Model ----
(***************************************************************************)
(* State-machine model of the HeartScanner component                       *)
(* (src/unnamed/part_002) and of the analysis gateway it calls             *)
(* (src/App.tsx, lines 37-191).                                            *)
(*                                                                         *)
(* One action is one task of the single-threaded event loop: a DOM event   *)
(* handler, or the continuation of an async function after an await.  The  *)
(* state updates of one task are applied as one batch, the component       *)
(* re-renders, and the effects whose dependencies changed run: all of that *)
(* is part of the action (Commit).                                         *)
(***************************************************************************)
EXTENDS Integers, Sequences, FiniteSets, TLC

VARIABLES
    appState, textInput, selectedImage,
    isRecording, audioBase64, isPlaying, audioPeaks, audioDuration, currentTime,
    mediaRecorderRef, audioRef,
    result, profiles, soulImage, error,
    chatMessages, chatInput, isChatLoading,
    analysisCalls, chatCalls, micRequests, recorders, imageReads,
    nSubmits, nSends, nRecs, nPicks, rafPending, lastOp

vars == <<appState, textInput, selectedImage,
          isRecording, audioBase64, isPlaying, audioPeaks, audioDuration, currentTime,
          mediaRecorderRef, audioRef,
          result, profiles, soulImage, error,
          chatMessages, chatInput, isChatLoading,
          analysisCalls, chatCalls, micRequests, recorders, imageReads,
          nSubmits, nSends, nRecs, nPicks, rafPending, lastOp>>

----------------------------------------------------------------------------
(* Bounds of the model *)

\* number of analyses that may be submitted in one behaviour
MaxSubmits == 2
\* number of chat messages that may be sent in one behaviour
MaxSends == 2
\* number of microphone acquisitions that may be requested in one behaviour
MaxRecs == 1
\* number of image files that may be picked in one behaviour
MaxUploads == 1
\* length of a recorded clip in the <audio> element, in playback ticks
ClipLen == 2
\* number of microphone acquisitions in one behaviour of the capture-only
\* specification
MaxTakes == 2

----------------------------------------------------------------------------
(* Values *)

\* null of a useState / useRef slot that otherwise holds an id
null == 0

\* strings are sequences of characters; "x" stands for any non-blank character
Texts == { <<>>, <<" ">>, <<"x">> }

RECURSIVE trimStart(_)
trimStart(s) ==
    IF s = <<>> THEN s
    ELSE IF Head(s) = " " THEN trimStart(Tail(s)) ELSE s

RECURSIVE trimEnd(_)
trimEnd(s) ==
    IF s = <<>> THEN s
    ELSE IF s[Len(s)] = " " THEN trimEnd(SubSeq(s, 1, Len(s) - 1)) ELSE s

\* String.prototype.trim
trim(s) == trimEnd(trimStart(s))

\* what the model service answers to an analyze request: the response text
\* is JSON, empty or not JSON; a JSON text has all required fields or not, a
\* number of emotions and a score in each of them
Response(text, complete, emotions, score) ==
    [text |-> text, complete |-> complete, emotions |-> emotions, score |-> score]
GoodResponse == Response("json", TRUE, 5, 50)
Responses ==
    { GoodResponse,
      Response("json", FALSE, 5, 50),
      Response("json", TRUE, 3, 50),
      Response("json", TRUE, 7, 50),
      Response("json", TRUE, 5, 101),
      Response("empty", FALSE, 0, 0),
      Response("garbage", FALSE, 0, 0) }

\* the slot of a profile object that was never returned; result, when not
\* null, is the id of the call whose returned object it holds: profiles[result]
NoProfile == Response("none", FALSE, 0, 0)

\* analyzeHeartContent after the service has answered: returns the parsed
\* object, or throws when the text is empty or does not parse
analyzeHeartContent(response) ==
    IF response.text = "json"
    THEN [ok |-> TRUE, value |-> response]
    ELSE [ok |-> FALSE, value |-> NoProfile]

\* the fixed message of handleAnalysis's catch, and the one of startRecording's
AnalysisErrorMessage == "analysis-failed"
MicErrorMessage == "mic-denied"

----------------------------------------------------------------------------
(* The component's state as one record, so that a handler is a function   *)
(* from the state it is invoked in to the state its batch of updates      *)
(* leaves.                                                                 *)

Cur ==
    [appState |-> appState, textInput |-> textInput, selectedImage |-> selectedImage,
     isRecording |-> isRecording, audioBase64 |-> audioBase64, isPlaying |-> isPlaying,
     audioPeaks |-> audioPeaks, audioDuration |-> audioDuration, currentTime |-> currentTime,
     mediaRecorderRef |-> mediaRecorderRef, audioRef |-> audioRef,
     result |-> result, profiles |-> profiles, soulImage |-> soulImage, error |-> error,
     chatMessages |-> chatMessages, chatInput |-> chatInput, isChatLoading |-> isChatLoading,
     analysisCalls |-> analysisCalls, chatCalls |-> chatCalls, micRequests |-> micRequests,
     recorders |-> recorders, imageReads |-> imageReads,
     nSubmits |-> nSubmits, nSends |-> nSends, nRecs |-> nRecs, nPicks |-> nPicks,
     rafPending |-> rafPending, lastOp |-> lastOp]

\* a render function that keeps the input form on screen while ANALYZING
ViewWithoutSpinner(st, res) ==
    IF st = "RESULTS" /\ res # null THEN "results" ELSE "idle"

\* which of the three returns of the render function is taken
View(st, res) ==
    IF st = "ANALYZING" THEN "analyzing"
    ELSE IF st = "RESULTS" /\ res # null THEN "results"
    ELSE "idle"

\* the <audio> element exists only in the idle view; a remounted element is new
NoElement == [mounted |-> FALSE, src |-> null, playing |-> FALSE, time |-> 0]
FreshElement == [mounted |-> TRUE, src |-> null, playing |-> FALSE, time |-> 0]

\* commit of the render: refs are attached / detached
AttachRefs(old, new) ==
    LET vOld == View(old.appState, old.result)
        vNew == View(new.appState, new.result)
    IN  [new EXCEPT !.audioRef =
            IF vNew # "idle" THEN NoElement
            ELSE IF vOld # "idle" THEN FreshElement
            ELSE @]

\* an animation effect without its cleanup: a scheduled frame is never cancelled
AnimationEffectNoCleanup(old, new) ==
    IF new.isPlaying = old.isPlaying THEN new
    ELSE [new EXCEPT
            !.currentTime = IF new.audioRef.mounted THEN new.audioRef.time ELSE @,
            !.rafPending = old.rafPending \/ new.isPlaying]

\* useEffect(..., [isPlaying]): the animation loop
AnimationEffect(old, new) ==
    IF new.isPlaying = old.isPlaying THEN new
    ELSE [new EXCEPT
            !.currentTime = IF new.audioRef.mounted THEN new.audioRef.time ELSE @,
            !.rafPending = new.isPlaying]

\* useEffect(..., [audioBase64]): sync audio source when recording changes
AudioSourceEffect(old, new) ==
    IF new.audioBase64 # old.audioBase64 /\ new.audioBase64 # null /\ new.audioRef.mounted
    THEN [new EXCEPT !.audioRef = [mounted |-> TRUE, src |-> new.audioBase64,
                                   playing |-> FALSE, time |-> 0]]
    ELSE new

\* the state after the re-render that follows a batch of updates
Effects(old, new) ==
    AudioSourceEffect(old, AnimationEffect(old, AttachRefs(old, new)))

\* a task ends: its updates are applied, the component renders, effects run
Commit(new) ==
    LET m == Effects(Cur, new)
    IN  /\ appState' = m.appState
        /\ textInput' = m.textInput
        /\ selectedImage' = m.selectedImage
        /\ isRecording' = m.isRecording
        /\ audioBase64' = m.audioBase64
        /\ isPlaying' = m.isPlaying
        /\ audioPeaks' = m.audioPeaks
        /\ audioDuration' = m.audioDuration
        /\ currentTime' = m.currentTime
        /\ mediaRecorderRef' = m.mediaRecorderRef
        /\ audioRef' = m.audioRef
        /\ result' = m.result
        /\ profiles' = m.profiles
        /\ soulImage' = m.soulImage
        /\ error' = m.error
        /\ chatMessages' = m.chatMessages
        /\ chatInput' = m.chatInput
        /\ isChatLoading' = m.isChatLoading
        /\ analysisCalls' = m.analysisCalls
        /\ chatCalls' = m.chatCalls
        /\ micRequests' = m.micRequests
        /\ recorders' = m.recorders
        /\ imageReads' = m.imageReads
        /\ nSubmits' = m.nSubmits
        /\ nSends' = m.nSends
        /\ nRecs' = m.nRecs
        /\ nPicks' = m.nPicks
        /\ rafPending' = m.rafPending
        /\ lastOp' = m.lastOp

----------------------------------------------------------------------------
(* Session controller: submit, analysis gateway, reset                     *)

\* the three inputs are all falsy after trimming the text
HandlerSeesNoInput(s) ==
    trim(s.textInput) = <<>> /\ s.selectedImage = null /\ s.audioBase64 = null

\* handleAnalysis without its first line
handleAnalysisUnguarded(s) ==
    [s EXCEPT !.appState = "ANALYZING",
              !.error = "none",
              !.result = null,
              !.soulImage = null,
              !.chatMessages = <<>>,
              !.nSubmits = @ + 1,
              !.analysisCalls = @ \cup {[id |-> s.nSubmits + 1, stage |-> "analyze"]},
              !.lastOp = "handleAnalysis"]

\* handleAnalysis up to its first await: the analyze call is issued
handleAnalysis(s) ==
    IF HandlerSeesNoInput(s) THEN [s EXCEPT !.lastOp = "handleAnalysis"]
    ELSE [s EXCEPT !.appState = "ANALYZING",
                   !.error = "none",
                   !.result = null,
                   !.soulImage = null,
                   !.chatMessages = <<>>,
                   !.nSubmits = @ + 1,
                   !.analysisCalls = @ \cup {[id |-> s.nSubmits + 1, stage |-> "analyze"]},
                   !.lastOp = "handleAnalysis"]

\* the action button's disabled attribute
SubmitDisabled(s) ==
    s.textInput = <<>> /\ s.selectedImage = null /\ s.audioBase64 = null

\* click on the action button of the idle view
ClickSubmit ==
    /\ View(appState, result) = "idle"
    /\ ~SubmitDisabled(Cur)
    /\ nSubmits < MaxSubmits
    /\ Commit(handleAnalysis(Cur))

\* onChange of the textarea
TypeText ==
    /\ View(appState, result) = "idle"
    /\ \E t \in Texts :
          /\ t # textInput
          /\ Commit([Cur EXCEPT !.textInput = t, !.lastOp = "setTextInput"])

\* the outer catch of handleAnalysis
analyzeRejected(s, c) ==
    [s EXCEPT !.error = AnalysisErrorMessage,
              !.appState = "ERROR",
              !.analysisCalls = @ \ {c},
              !.lastOp = "analyzeRejected"]

\* the service answers call c with response r: analyzeHeartContent returns
\* (setResult, then the image call) or throws (the outer catch)
AnalyzeResponds(c, r) ==
    /\ c \in analysisCalls
    /\ c.stage = "analyze"
    /\ LET a == analyzeHeartContent(r)
       IN  IF a.ok
           THEN Commit([Cur EXCEPT !.result = c.id,
                                   !.profiles[c.id] = a.value,
                                   !.analysisCalls = (@ \ {c}) \cup {[c EXCEPT !.stage = "image"]},
                                   !.lastOp = "analyzeResolved"])
           ELSE Commit(analyzeRejected(Cur, c))

\* analyzeHeartContent resolves with a well-formed profile
AnalyzeResolves(c) == AnalyzeResponds(c, GoodResponse)

\* analyzeHeartContent rejects on a transport error
AnalyzeRejects(c) ==
    /\ c \in analysisCalls
    /\ c.stage = "analyze"
    /\ Commit(analyzeRejected(Cur, c))

\* generateSoulImage resolves: setSoulImage, setAppState(RESULTS)
ImageResolves(c) ==
    /\ c \in analysisCalls
    /\ c.stage = "image"
    /\ Commit([Cur EXCEPT !.soulImage = c.id,
                          !.appState = "RESULTS",
                          !.analysisCalls = @ \ {c},
                          !.lastOp = "imageResolved"])

\* a handleAnalysis whose inner try/catch is missing: the image failure
\* reaches the outer catch
imageRejectedUncaught(s, c) ==
    [s EXCEPT !.error = AnalysisErrorMessage,
              !.appState = "ERROR",
              !.analysisCalls = @ \ {c},
              !.lastOp = "imageRejected"]

\* a handleAnalysis that returns to the input form when the image call fails
imageRejectedBackToForm(s, c) ==
    [s EXCEPT !.appState = "IDLE",
              !.analysisCalls = @ \ {c},
              !.lastOp = "imageRejected"]

\* a handleAnalysis whose inner catch returns instead of going on to Results
imageRejectedAndReturns(s, c) ==
    [s EXCEPT !.analysisCalls = @ \ {c},
              !.lastOp = "imageRejected"]

\* generateSoulImage rejects: the inner catch, then setAppState(RESULTS)
imageRejected(s, c) ==
    [s EXCEPT !.appState = "RESULTS",
              !.analysisCalls = @ \ {c},
              !.lastOp = "imageRejected"]

ImageRejects(c) ==
    /\ c \in analysisCalls
    /\ c.stage = "image"
    /\ Commit(imageRejected(Cur, c))

\* reset that leaves the profile in place
resetKeepingProfile(s) ==
    [s EXCEPT !.appState = "IDLE",
              !.textInput = <<>>,
              !.selectedImage = null,
              !.audioBase64 = null,
              !.soulImage = null,
              !.chatMessages = <<>>,
              !.audioPeaks = <<>>,
              !.lastOp = "reset"]

\* reset that forgets to clear the chat and the waveform
resetKeepingThread(s) ==
    [s EXCEPT !.appState = "IDLE",
              !.textInput = <<>>,
              !.selectedImage = null,
              !.audioBase64 = null,
              !.result = null,
              !.soulImage = null,
              !.lastOp = "reset"]

reset(s) ==
    [s EXCEPT !.appState = "IDLE",
              !.textInput = <<>>,
              !.selectedImage = null,
              !.audioBase64 = null,
              !.result = null,
              !.soulImage = null,
              !.chatMessages = <<>>,
              !.audioPeaks = <<>>,
              !.lastOp = "reset"]

\* click on the reset button of the results view
ClickReset ==
    /\ View(appState, result) = "results"
    /\ Commit(reset(Cur))

----------------------------------------------------------------------------
(* Conversation thread                                                     *)

\* handleChatSend without its first line
handleChatSendUnguarded(s) ==
    [s EXCEPT !.chatMessages = Append(@, [role |-> "user", text |-> s.chatInput]),
              !.chatInput = <<>>,
              !.isChatLoading = TRUE,
              !.nSends = @ + 1,
              !.chatCalls = @ \cup {[id |-> s.nSends + 1, history |-> s.chatMessages,
                                     profile |-> s.result, message |-> s.chatInput]},
              !.lastOp = "handleChatSend"]

\* a handleChatSend that passes the thread with the new turn already in it
handleChatSendHistoryWithTurn(s) ==
    IF trim(s.chatInput) = <<>> \/ s.result = null
    THEN [s EXCEPT !.lastOp = "handleChatSend"]
    ELSE [s EXCEPT !.chatMessages = Append(@, [role |-> "user", text |-> s.chatInput]),
                   !.chatInput = <<>>,
                   !.isChatLoading = TRUE,
                   !.nSends = @ + 1,
                   !.chatCalls = @ \cup {[id |-> s.nSends + 1,
                                          history |-> Append(s.chatMessages,
                                                             [role |-> "user", text |-> s.chatInput]),
                                          profile |-> s.result, message |-> s.chatInput]},
                   !.lastOp = "handleChatSend"]

\* handleChatSend up to its await: the chat request is issued
handleChatSend(s) ==
    IF trim(s.chatInput) = <<>> \/ s.result = null
    THEN [s EXCEPT !.lastOp = "handleChatSend"]
    ELSE [s EXCEPT !.chatMessages = Append(@, [role |-> "user", text |-> s.chatInput]),
                   !.chatInput = <<>>,
                   !.isChatLoading = TRUE,
                   !.nSends = @ + 1,
                   !.chatCalls = @ \cup {[id |-> s.nSends + 1, history |-> s.chatMessages,
                                          profile |-> s.result, message |-> s.chatInput]},
                   !.lastOp = "handleChatSend"]

\* the send button's disabled attribute
SendDisabled(s) == trim(s.chatInput) = <<>> \/ s.isChatLoading

\* click on the send button of the results view
ClickSend ==
    /\ View(appState, result) = "results"
    /\ ~SendDisabled(Cur)
    /\ nSends < MaxSends
    /\ Commit(handleChatSend(Cur))

\* Enter pressed in the chat input: onKeyDown calls handleChatSend
PressEnter ==
    /\ View(appState, result) = "results"
    /\ nSends < MaxSends
    /\ Commit(handleChatSend(Cur))

\* onChange of the chat input
TypeChat ==
    /\ View(appState, result) = "results"
    /\ \E t \in Texts :
          /\ t # chatInput
          /\ Commit([Cur EXCEPT !.chatInput = t, !.lastOp = "setChatInput"])

\* chatWithHeart: the lines of the prompt it sends, one speaker and text per
\* line: the history, mapped turn by turn, then the new message
historyText(history) ==
    [k \in 1..Len(history) |->
        [speaker |-> IF history[k].role = "user" THEN "User" ELSE "Heart",
         text |-> history[k].text]]
fullPrompt(history, newMessage) ==
    Append(historyText(history), [speaker |-> "User", text |-> newMessage])

\* text of the reply to request c, as chatWithHeart returns it
Digits == <<"1", "2", "3", "4", "5", "6", "7", "8", "9">>
ReplyText(c) == <<"r", Digits[c.id]>>

\* chatWithHeart resolves: the bot turn is appended to the thread as it is now
ChatResolves(c) ==
    /\ c \in chatCalls
    /\ Commit([Cur EXCEPT !.chatMessages = Append(@, [role |-> "model", text |-> ReplyText(c)]),
                          !.isChatLoading = FALSE,
                          !.chatCalls = @ \ {c},
                          !.lastOp = "chatResolved"])

\* a handleChatSend whose catch treats the failure like a failed analysis
chatRejectedAsFatal(s, c) ==
    [s EXCEPT !.isChatLoading = FALSE,
              !.error = AnalysisErrorMessage,
              !.appState = "ERROR",
              !.chatCalls = @ \ {c},
              !.lastOp = "chatRejected"]

\* a handleChatSend whose catch takes the user's turn back out of the thread
chatRejectedDroppingTurn(s, c) ==
    [s EXCEPT !.isChatLoading = FALSE,
              !.chatMessages = c.history,
              !.chatCalls = @ \ {c},
              !.lastOp = "chatRejected"]

\* the catch and the finally of handleChatSend
chatRejected(s, c) ==
    [s EXCEPT !.isChatLoading = FALSE,
              !.chatCalls = @ \ {c},
              !.lastOp = "chatRejected"]

\* chatWithHeart rejects: catch logs, finally clears the flag
ChatRejects(c) ==
    /\ c \in chatCalls
    /\ Commit(chatRejected(Cur, c))

----------------------------------------------------------------------------
(* Waveform derivation (extractAudioData).  A number is a fraction <<n, d>> *)
(* with d > 0, or NaN, the value of 0/0.                                    *)

NaN == <<0, 0>>
IsNaN(x) == x[2] = 0
Less(a, b) == ~IsNaN(a) /\ ~IsNaN(b) /\ a[1] * b[2] < b[1] * a[2]

\* Math.max and Math.min of two numbers: NaN if either is NaN
MathMax(a, b) == IF IsNaN(a) \/ IsNaN(b) THEN NaN ELSE IF Less(a, b) THEN b ELSE a
MathMin(a, b) == IF IsNaN(a) \/ IsNaN(b) THEN NaN ELSE IF Less(b, a) THEN b ELSE a

\* a / b for a >= 0 and b >= 0; x / 0 occurs in the code only as 0 / 0
Div(a, b) ==
    IF IsNaN(a) \/ IsNaN(b) \/ b[1] = 0 THEN NaN ELSE <<a[1] * b[2], a[2] * b[1]>>

AbsInt(x) == IF x < 0 THEN 0 - x ELSE x

SAMPLES == 40

\* the inner loop: sum of |channelData[start + j]| for j < step, start + j < length
RECURSIVE BucketSum(_, _, _, _)
BucketSum(channelData, start, step, j) ==
    IF j >= step \/ start + j >= Len(channelData) THEN 0
    ELSE AbsInt(channelData[start + j + 1]) + BucketSum(channelData, start, step, j + 1)

\* Math.max(...peaks): NaN if any argument is NaN
MaxOf(peaks) ==
    IF \E k \in 1..Len(peaks) : IsNaN(peaks[k]) THEN NaN
    ELSE LET k == CHOOSE k \in 1..Len(peaks) :
                     \A j \in 1..Len(peaks) : ~Less(peaks[k], peaks[j])
         IN  peaks[k]

\* a normalisation without the "|| 1": the maximum is used as it is
OrOneAbsent(x) == x

\* x || 1
OrOne(x) == IF IsNaN(x) \/ x[1] = 0 THEN <<1, 1>> ELSE x

\* an outer loop whose last bucket takes in the samples left over at the end
BucketMeansKeepingTail(channelData) ==
    LET step == Len(channelData) \div SAMPLES
    IN  [i \in 1..SAMPLES |->
            Div(<<BucketSum(channelData, (i - 1) * step,
                            IF i = SAMPLES THEN Len(channelData) ELSE step, 0), 1>>,
                <<step, 1>>)]

\* the outer loop: peaks before normalisation, sum / step for each bucket
BucketMeans(channelData) ==
    LET step == Len(channelData) \div SAMPLES
    IN  [i \in 1..SAMPLES |->
            Div(<<BucketSum(channelData, (i - 1) * step, step, 0), 1>>, <<step, 1>>)]

\* the try block of extractAudioData, on the decoded first channel
PeaksOf(channelData) ==
    LET peaks == BucketMeans(channelData)
        max == OrOne(MaxOf(peaks))
    IN  [i \in 1..SAMPLES |-> MathMin(<<1, 1>>, MathMax(<<1, 10>>, Div(peaks[i], max)))]

\* what was recorded: the decoded first channel, or a clip that does not decode
AllClips == {"silence", "tone", "exact", "ragged", "click", "short", "corrupt"}
SampleRate == 40
ChannelData(clip) ==
    CASE clip = "silence" -> [k \in 1..80 |-> 0]
      [] clip = "tone"    -> [k \in 1..80 |-> (k % 7) - 3]
      [] clip = "exact"   -> [k \in 1..40 |-> (k % 5) - 2]
      [] clip = "ragged"  -> [k \in 1..85 |-> IF k > 80 THEN 9 ELSE (k % 4) - 1]
      [] clip = "click"   -> [k \in 1..80 |-> IF k = 41 THEN 0 - 7 ELSE 0]
      [] clip = "short"   -> <<5, -3, 2>>

\* an extractAudioData whose catch block returns no bars at all
extractAudioDataEmptyFallback(clip) ==
    IF clip = "corrupt"
    THEN [peaks |-> <<>>, duration |-> <<0, 1>>]
    ELSE [peaks |-> PeaksOf(ChannelData(clip)),
          duration |-> <<Len(ChannelData(clip)), SampleRate>>]

\* extractAudioData: peaks and duration, or the placeholder of the catch block
extractAudioData(clip) ==
    IF clip = "corrupt"
    THEN [peaks |-> [i \in 1..40 |-> <<1, 2>>], duration |-> <<0, 1>>]
    ELSE [peaks |-> PeaksOf(ChannelData(clip)),
          duration |-> <<Len(ChannelData(clip)), SampleRate>>]

\* the clips a recording of the session machine may produce
Clips == {"tone", "corrupt"}
Waveform == [clip \in AllClips |-> extractAudioData(clip)]

----------------------------------------------------------------------------
(* Audio capture pipeline                                                  *)

\* click on the voice box of the idle view: startRecording up to its await;
\* at most limit acquisitions are requested in one behaviour
ClickStartRecordingUpTo(limit) ==
    /\ View(appState, result) = "idle"
    /\ audioBase64 = null
    /\ ~isRecording
    /\ nRecs + micRequests < limit
    /\ Commit([Cur EXCEPT !.micRequests = @ + 1, !.lastOp = "startRecording"])

ClickStartRecording == ClickStartRecordingUpTo(MaxRecs)

NewRecorder ==
    [phase |-> "recording", live |-> TRUE, reading |-> FALSE, decoding |-> FALSE,
     clip |-> "none"]

\* getUserMedia resolves: the recorder is created and started
MicGranted ==
    /\ micRequests > 0
    /\ Commit([Cur EXCEPT !.micRequests = @ - 1,
                          !.nRecs = @ + 1,
                          !.recorders = Append(@, NewRecorder),
                          !.mediaRecorderRef = nRecs + 1,
                          !.isRecording = TRUE,
                          !.lastOp = "micGranted"])

\* a startRecording that raises the recording flag before the stream is there
startRecordingCatchFlagRaised(s) ==
    [s EXCEPT !.micRequests = @ - 1,
              !.error = MicErrorMessage,
              !.isRecording = TRUE,
              !.lastOp = "micDenied"]

\* the catch block of startRecording
startRecordingCatch(s) ==
    [s EXCEPT !.micRequests = @ - 1,
              !.error = MicErrorMessage,
              !.lastOp = "micDenied"]

\* getUserMedia rejects
MicDenied ==
    /\ micRequests > 0
    /\ Commit(startRecordingCatch(Cur))

\* a stopRecording that stops the recorder but leaves the recording flag set
stopRecordingKeepingFlag(s) ==
    IF s.mediaRecorderRef # null /\ s.isRecording
    THEN [s EXCEPT !.recorders[s.mediaRecorderRef].phase = "stopping",
                   !.lastOp = "stopRecording"]
    ELSE [s EXCEPT !.lastOp = "stopRecording"]

stopRecording(s) ==
    IF s.mediaRecorderRef # null /\ s.isRecording
    THEN [s EXCEPT !.recorders[s.mediaRecorderRef].phase = "stopping",
                   !.isRecording = FALSE,
                   !.lastOp = "stopRecording"]
    ELSE [s EXCEPT !.lastOp = "stopRecording"]

\* click on the stop box of the idle view
ClickStopRecording ==
    /\ View(appState, result) = "idle"
    /\ audioBase64 = null
    /\ isRecording
    /\ Commit(stopRecording(Cur))

\* the recorder's stop event with clip c in its chunks: onstop up to its await
RecorderStoppedWith(i, c) ==
    /\ recorders[i].phase = "stopping"
    /\ Commit([Cur EXCEPT !.recorders[i] = [@ EXCEPT !.phase = "stopped",
                                                     !.reading = TRUE,
                                                     !.decoding = TRUE,
                                                     !.clip = c],
                          !.lastOp = "onstop"])

RecorderStopped(i) == \E c \in Clips : RecorderStoppedWith(i, c)

\* reader.onloadend of onstop: the clip becomes the audio input
ReaderLoaded(i) ==
    /\ recorders[i].reading
    /\ Commit([Cur EXCEPT !.recorders[i].reading = FALSE,
                          !.audioBase64 = i,
                          !.lastOp = "readerLoaded"])

\* extractAudioData returns: the rest of onstop
WaveformDerived(i) ==
    /\ recorders[i].decoding
    /\ LET w == Waveform[recorders[i].clip]
       IN  Commit([Cur EXCEPT !.recorders[i] = [@ EXCEPT !.decoding = FALSE, !.live = FALSE],
                              !.audioPeaks = w.peaks,
                              !.audioDuration = w.duration,
                              !.lastOp = "waveformDerived"])

clearAudio(s) ==
    [s EXCEPT !.audioBase64 = null,
              !.isRecording = FALSE,
              !.isPlaying = FALSE,
              !.currentTime = 0,
              !.audioPeaks = <<>>,
              !.audioRef = IF @.mounted THEN [@ EXCEPT !.playing = FALSE, !.time = 0] ELSE @,
              !.lastOp = "clearAudio"]

\* click on the delete button next to the waveform
ClickClearAudio ==
    /\ View(appState, result) = "idle"
    /\ audioBase64 # null
    /\ Commit(clearAudio(Cur))

\* handleImageUpload: a file was picked, its reader is started
PickImage ==
    /\ View(appState, result) = "idle"
    /\ nPicks < MaxUploads
    /\ Commit([Cur EXCEPT !.nPicks = @ + 1, !.imageReads = @ + 1,
                          !.lastOp = "handleImageUpload"])

\* reader.onloadend of handleImageUpload: the data URL becomes the image input
ImageLoaded ==
    /\ imageReads > 0
    /\ Commit([Cur EXCEPT !.imageReads = @ - 1, !.selectedImage = nPicks,
                          !.lastOp = "imageLoaded"])

----------------------------------------------------------------------------
(* Playback synchronizer                                                   *)

\* HTMLMediaElement.play(): nothing to play without a source
Play(el) ==
    IF el.src = null THEN el
    ELSE [el EXCEPT !.playing = TRUE, !.time = IF @ = ClipLen THEN 0 ELSE @]

togglePlayback(s) ==
    IF s.audioRef.mounted
    THEN [s EXCEPT !.audioRef = IF s.isPlaying THEN [@ EXCEPT !.playing = FALSE] ELSE Play(@),
                   !.isPlaying = ~s.isPlaying,
                   !.lastOp = "togglePlayback"]
    ELSE [s EXCEPT !.lastOp = "togglePlayback"]

\* click on the play / pause button next to the waveform
ClickTogglePlayback ==
    /\ View(appState, result) = "idle"
    /\ audioBase64 # null
    /\ Commit(togglePlayback(Cur))

\* the element plays on
ElementTick ==
    /\ audioRef.playing
    /\ audioRef.time < ClipLen
    /\ Commit([Cur EXCEPT !.audioRef.time = @ + 1, !.lastOp = "timeupdate"])

handleAudioEnded(s) ==
    [s EXCEPT !.isPlaying = FALSE, !.currentTime = 0, !.lastOp = "handleAudioEnded"]

\* the element reaches the end of the clip: onEnded
ElementEnded ==
    /\ audioRef.playing
    /\ audioRef.time = ClipLen
    /\ Commit(handleAudioEnded([Cur EXCEPT !.audioRef.playing = FALSE]))

\* a scheduled animation frame runs render() of the animation effect
AnimationFrame ==
    /\ rafPending
    /\ Commit([Cur EXCEPT !.currentTime = IF audioRef.mounted THEN audioRef.time ELSE @,
                          !.lastOp = "animationFrame"])

----------------------------------------------------------------------------
(* Waveform drawing (the draw effect): which bars are painted as played    *)

\* audioDuration > 0 ? currentTime / audioDuration : 0
progress(time, duration) ==
    IF Less(<<0, 1>>, duration) THEN Div(<<time, 1>>, duration) ELSE <<0, 1>>

\* a colouring that counts the bars from the right-hand end
isPlayedFromEnd(index, n, p) == Less(<<n - 1 - index, n>>, p)

\* (index / audioPeaks.length) < progress
isPlayed(index, n, p) == Less(<<index, n>>, p)

\* the indices of the bars the forEach paints in the played colour
PlayedBars(peaks, time, duration) ==
    { index \in 0..(Len(peaks) - 1) : isPlayed(index, Len(peaks), progress(time, duration)) }

----------------------------------------------------------------------------
(* The component after its first render *)

Init ==
    /\ appState = "IDLE"
    /\ textInput = <<>>
    /\ selectedImage = null
    /\ isRecording = FALSE
    /\ audioBase64 = null
    /\ isPlaying = FALSE
    /\ audioPeaks = <<>>
    /\ audioDuration = <<0, 1>>
    /\ currentTime = 0
    /\ mediaRecorderRef = null
    /\ audioRef = FreshElement
    /\ result = null
    /\ profiles = [id \in 1..MaxSubmits |-> NoProfile]
    /\ soulImage = null
    /\ error = "none"
    /\ chatMessages = <<>>
    /\ chatInput = <<>>
    /\ isChatLoading = FALSE
    /\ analysisCalls = {}
    /\ chatCalls = {}
    /\ micRequests = 0
    /\ recorders = <<>>
    /\ imageReads = 0
    /\ nSubmits = 0
    /\ nSends = 0
    /\ nRecs = 0
    /\ nPicks = 0
    /\ rafPending = FALSE
    /\ lastOp = "mount"

Next ==
    \/ TypeText
    \/ PickImage
    \/ ImageLoaded
    \/ ClickSubmit
    \/ \E c \in analysisCalls : AnalyzeResolves(c)
    \/ \E c \in analysisCalls : AnalyzeRejects(c)
    \/ \E c \in analysisCalls : ImageResolves(c)
    \/ \E c \in analysisCalls : ImageRejects(c)
    \/ ClickReset
    \/ TypeChat
    \/ ClickSend
    \/ PressEnter
    \/ \E c \in chatCalls : ChatResolves(c)
    \/ \E c \in chatCalls : ChatRejects(c)
    \/ ClickStartRecording
    \/ MicGranted
    \/ MicDenied
    \/ ClickStopRecording
    \/ \E i \in 1..Len(recorders) : RecorderStopped(i)
    \/ \E i \in 1..Len(recorders) : ReaderLoaded(i)
    \/ \E i \in 1..Len(recorders) : WaveformDerived(i)
    \/ ClickClearAudio
    \/ ClickTogglePlayback
    \/ ElementTick
    \/ ElementEnded
    \/ AnimationFrame

Spec == Init /\ [][Next]_vars

----------------------------------------------------------------------------
(* Partial specifications: the same component, driven through a part of    *)
(* its controls.  Every behaviour of one of them is a behaviour of Spec.   *)

\* text input, submit, the gateway's answers, the chat and reset
NextSession ==
    \/ TypeText
    \/ ClickSubmit
    \/ \E c \in analysisCalls : AnalyzeResolves(c)
    \/ \E c \in analysisCalls : AnalyzeRejects(c)
    \/ \E c \in analysisCalls : ImageResolves(c)
    \/ \E c \in analysisCalls : ImageRejects(c)
    \/ ClickReset
    \/ TypeChat
    \/ ClickSend
    \/ PressEnter
    \/ \E c \in chatCalls : ChatResolves(c)
    \/ \E c \in chatCalls : ChatRejects(c)

SpecSession == Init /\ [][NextSession]_vars

\* an outstanding gateway call (analyze or image) returns or fails
GatewayAnswers ==
    \E c \in analysisCalls :
        \/ AnalyzeResolves(c)
        \/ AnalyzeRejects(c)
        \/ ImageResolves(c)
        \/ ImageRejects(c)

\* the session under the assumption that every gateway call of an analysis
\* eventually returns or fails; nothing is assumed of the user or the chat
SpecSessionFair == Init /\ [][NextSession]_vars /\ WF_vars(GatewayAnswers)

\* the three inputs, recording, playback, submit, the gateway's answers and reset
NextCapture ==
    \/ TypeText
    \/ PickImage
    \/ ImageLoaded
    \/ ClickSubmit
    \/ \E c \in analysisCalls : AnalyzeResolves(c)
    \/ \E c \in analysisCalls : AnalyzeRejects(c)
    \/ \E c \in analysisCalls : ImageResolves(c)
    \/ \E c \in analysisCalls : ImageRejects(c)
    \/ ClickReset
    \/ ClickStartRecording
    \/ MicGranted
    \/ MicDenied
    \/ ClickStopRecording
    \/ \E i \in 1..Len(recorders) : RecorderStopped(i)
    \/ \E i \in 1..Len(recorders) : ReaderLoaded(i)
    \/ \E i \in 1..Len(recorders) : WaveformDerived(i)
    \/ ClickClearAudio
    \/ ClickTogglePlayback
    \/ ElementTick
    \/ ElementEnded
    \/ AnimationFrame

SpecCapture == Init /\ [][NextCapture]_vars

\* all three inputs, a successful analysis, the chat and reset
NextRound ==
    \/ TypeText
    \/ PickImage
    \/ ImageLoaded
    \/ ClickStartRecording
    \/ MicGranted
    \/ ClickStopRecording
    \/ \E i \in 1..Len(recorders) : RecorderStopped(i)
    \/ \E i \in 1..Len(recorders) : ReaderLoaded(i)
    \/ \E i \in 1..Len(recorders) : WaveformDerived(i)
    \/ ClickSubmit
    \/ \E c \in analysisCalls : AnalyzeResolves(c)
    \/ \E c \in analysisCalls : ImageResolves(c)
    \/ TypeChat
    \/ ClickSend
    \/ \E c \in chatCalls : ChatResolves(c)
    \/ ClickReset

SpecRound == Init /\ [][NextRound]_vars

\* one recording of any clip, its waveform, playback and deletion
NextWaveform ==
    \/ ClickStartRecording
    \/ MicGranted
    \/ ClickStopRecording
    \/ \E i \in 1..Len(recorders) : \E c \in AllClips : RecorderStoppedWith(i, c)
    \/ \E i \in 1..Len(recorders) : ReaderLoaded(i)
    \/ \E i \in 1..Len(recorders) : WaveformDerived(i)
    \/ ClickClearAudio
    \/ ClickTogglePlayback
    \/ ElementTick
    \/ ElementEnded
    \/ AnimationFrame

SpecWaveform == Init /\ [][NextWaveform]_vars

\* text input, submit, every answer of the model service, the image call, reset
NextGateway ==
    \/ TypeText
    \/ ClickSubmit
    \/ \E c \in analysisCalls : \E r \in Responses : AnalyzeResponds(c, r)
    \/ \E c \in analysisCalls : AnalyzeRejects(c)
    \/ \E c \in analysisCalls : ImageResolves(c)
    \/ \E c \in analysisCalls : ImageRejects(c)
    \/ ClickReset

SpecGateway == Init /\ [][NextGateway]_vars

\* recording more than once, with playback and deletion, on the input form
NextRerecord ==
    \/ ClickStartRecordingUpTo(MaxTakes)
    \/ MicGranted
    \/ MicDenied
    \/ ClickStopRecording
    \/ \E i \in 1..Len(recorders) : RecorderStopped(i)
    \/ \E i \in 1..Len(recorders) : ReaderLoaded(i)
    \/ \E i \in 1..Len(recorders) : WaveformDerived(i)
    \/ ClickClearAudio
    \/ ClickTogglePlayback
    \/ ElementTick
    \/ ElementEnded
    \/ AnimationFrame

SpecRerecord == Init /\ [][NextRerecord]_vars

----------------------------------------------------------------------------
(* Properties *)

\* the Profile shape: all fields present, 4 to 6 emotions, scores in 0..100
ValidProfile(p) == p.complete /\ p.emotions \in 4..6 /\ p.score \in 0..100

\* s is t, or t with elements removed from its end
IsPrefix(s, t) == Len(s) <= Len(t) /\ SubSeq(t, 1, Len(s)) = s

\* a = b for two numbers; false if either is NaN
NumEq(a, b) == ~IsNaN(a) /\ ~IsNaN(b) /\ a[1] * b[2] = b[1] * a[2]

\* a and b are the same value: the same number, or both not a number
SameValue(a, b) == (IsNaN(a) /\ IsNaN(b)) \/ NumEq(a, b)

\* the sum of |x[k]| over the (0-based) indices k of S
RECURSIVE SumAbs(_, _)
SumAbs(x, S) ==
    IF S = {} THEN 0
    ELSE LET k == CHOOSE k \in S : TRUE
         IN  (IF x[k + 1] < 0 THEN 0 - x[k + 1] ELSE x[k + 1]) + SumAbs(x, S \ {k})

\* the bucketing as the waveform contract words it: bucket i of 0..39 is the
\* mean of |x[k]| for k in i*step .. i*step+step-1, step = floor(length/40)
MeanOfBucket(x, i) ==
    LET step == Len(x) \div 40
    IN  Div(<<SumAbs(x, (i * step)..(i * step + step - 1)), 1>>, <<step, 1>>)
LargestMean(x) == MaxOf([i \in 1..40 |-> MeanOfBucket(x, i - 1)])

\* min(1, max(0.1, mean / divisor))
BarOf(mean, divisor) == MathMin(<<1, 1>>, MathMax(<<1, 10>>, Div(mean, divisor)))

\* x is a number and 0.1 <= x <= 1.0
InBarRange(x) == ~IsNaN(x) /\ ~Less(x, <<1, 10>>) /\ ~Less(<<1, 1>>, x)

\* C1: handleAnalysis invoked while the text is empty or whitespace-only, no
\* image is selected and no clip is present changes neither appState, the
\* profile, the chat sequence nor the error, and issues no analyze call.
C1_EmptySubmitIsNoOp ==
    [][ (/\ lastOp' = "handleAnalysis"
         /\ trim(textInput) = <<>>
         /\ selectedImage = null
         /\ audioBase64 = null)
        => (/\ appState' = appState
            /\ result' = result
            /\ chatMessages' = chatMessages
            /\ error' = error
            /\ analysisCalls' = analysisCalls
            /\ nSubmits' = nSubmits) ]_vars

\* the submit button was clicked on a whitespace-only text and nothing was sent
C1_Witness ==
    /\ lastOp = "handleAnalysis"
    /\ textInput = <<" ">>
    /\ selectedImage = null
    /\ audioBase64 = null
    /\ appState = "IDLE"
    /\ nSubmits = 0

\* C2 (as claimed): whenever Results is entered from Analyzing, the profile is
\* the value the analyze call returned and the chat sequence is empty.
C2_ResultsEnteredWithEmptyChat ==
    [][ (appState = "ANALYZING" /\ appState' = "RESULTS")
        => (/\ chatMessages' = <<>>
            /\ \E c \in analysisCalls : c.stage = "image" /\ result' = c.id) ]_vars

\* C3 (as claimed): whenever the analyze call fails, the session moves from
\* Analyzing to Error with the profile none and the chat sequence empty.
C3_ErrorEnteredWithEmptyThread ==
    [][ lastOp' = "analyzeRejected"
        => (/\ appState = "ANALYZING"
            /\ appState' = "ERROR"
            /\ result' = null
            /\ chatMessages' = <<>>) ]_vars

\* C4: when the image call throws after a successful analyze, the session
\* enters Results with the image slot empty; Error is not entered and the
\* error message is left as it was.
C4_ImageFailureIsSwallowed ==
    [][ lastOp' = "imageRejected"
        => (/\ appState = "ANALYZING"
            /\ appState' = "RESULTS"
            /\ result' = result
            /\ result' # null
            /\ soulImage' = null
            /\ error' = error) ]_vars

\* Results was entered through a failed image call
C4_Witness ==
    /\ lastOp = "imageRejected"
    /\ appState = "RESULTS"
    /\ result # null
    /\ soulImage = null

C6_ResetClearsCaptureAndPlayback ==
    lastOp = "reset"
    => (/\ ~isRecording
        /\ ~isPlaying
        /\ currentTime = 0
        /\ \A i \in 1..Len(recorders) : ~recorders[i].live)

\* C7: at most one analyze call is outstanding, and no step taken while the
\* session is Analyzing issues another one.
C7_OneOutstandingAnalysis ==
    [][ /\ Cardinality(analysisCalls') <= 1
        /\ (appState = "ANALYZING" => nSubmits' = nSubmits) ]_vars

\* Analyzing, with an input the handler would accept were it invoked again
C7_Witness ==
    /\ appState = "ANALYZING"
    /\ Cardinality(analysisCalls) = 1
    /\ trim(textInput) # <<>>
    /\ nSubmits < MaxSubmits

\* C8 (as claimed): while pending is true no step issues a chat request or
\* appends a user turn, so at most one chat request is in flight.
C8_OneSendInFlight ==
    [][ isChatLoading
        => (/\ nSends' = nSends
            /\ Cardinality(chatCalls') <= 1
            /\ (Len(chatMessages') > Len(chatMessages)
                  => chatMessages'[Len(chatMessages')].role = "model")) ]_vars

\* C9 (as claimed): in Idle the chat sequence is empty and the profile is
\* none, whatever response arrives late.
C9_IdleHoldsNoStaleState ==
    appState = "IDLE" => (chatMessages = <<>> /\ result = null)

\* C10: handleChatSend invoked with an empty or whitespace-only message, or
\* without a profile, leaves the chat sequence, the pending flag and the chat
\* input unchanged and issues no chat request.
C10_BlankSendIsNoOp ==
    [][ (lastOp' = "handleChatSend" /\ (trim(chatInput) = <<>> \/ result = null))
        => (/\ chatMessages' = chatMessages
            /\ isChatLoading' = isChatLoading
            /\ chatInput' = chatInput
            /\ chatCalls' = chatCalls
            /\ nSends' = nSends) ]_vars

\* Enter was pressed on a whitespace-only message and nothing was sent
C10_Witness ==
    /\ lastOp = "handleChatSend"
    /\ chatInput = <<" ">>
    /\ appState = "RESULTS"
    /\ result # null

\* C11 (as claimed): a legal send appends the user turn, sets pending and
\* issues one chat request; when a request succeeds, one counterpart turn with
\* the returned text is appended directly after that request's user turn and
\* pending is cleared.
C11_SendThenReplyDirectlyAfter ==
    [][ /\ (lastOp' = "handleChatSend" /\ trim(chatInput) # <<>> /\ result # null)
           => (/\ chatMessages' = Append(chatMessages, [role |-> "user", text |-> chatInput])
               /\ isChatLoading'
               /\ \E c \in chatCalls' :
                     /\ chatCalls' = chatCalls \cup {c}
                     /\ c \notin chatCalls
                     /\ c.message = chatInput)
        /\ lastOp' = "chatResolved"
           => \E c \in chatCalls :
                 /\ chatCalls' = chatCalls \ {c}
                 /\ chatMessages' = Append(chatMessages, [role |-> "model", text |-> ReplyText(c)])
                 /\ chatMessages # <<>>
                 /\ chatMessages[Len(chatMessages)] = [role |-> "user", text |-> c.message]
                 /\ ~isChatLoading' ]_vars

\* C12: when a chat request fails, pending is cleared, the chat sequence (with
\* the user's turn) is left as it is, the session state and the error message
\* do not change, and no chat request is issued.
C12_ChatFailureIsSwallowed ==
    [][ lastOp' = "chatRejected"
        => (/\ ~isChatLoading'
            /\ chatMessages' = chatMessages
            /\ appState' = appState
            /\ error' = error
            /\ result' = result
            /\ chatCalls' \subseteq chatCalls
            /\ nSends' = nSends) ]_vars

\* the only send of a session failed: its user turn is shown without a reply
C12_Witness ==
    /\ lastOp = "chatRejected"
    /\ appState = "RESULTS"
    /\ error = "none"
    /\ nSends = 1
    /\ chatCalls = {}
    /\ ~isChatLoading
    /\ Len(chatMessages) = 1
    /\ chatMessages[1].role = "user"

\* C13 (as claimed): the waveform derived from any clip has exactly 40 peaks,
\* each a number between 0.1 and 1.0, also when the clip has fewer than 40
\* samples.
C13_FortyPeaksInRange ==
    lastOp = "waveformDerived"
    => (/\ Len(audioPeaks) = 40
        /\ \A k \in 1..Len(audioPeaks) : InBarRange(audioPeaks[k]))

\* C14: when every bucket mean of the decoded clip is zero, each of the 40
\* peaks derived from it equals 0.1.
C14_SilenceGivesFloor ==
    [][ \A i \in 1..Len(recorders) :
          (/\ recorders[i].decoding
           /\ ~recorders'[i].decoding
           /\ recorders[i].clip # "corrupt"
           /\ \A k \in 1..SAMPLES :
                 NumEq(BucketMeans(ChannelData(recorders[i].clip))[k], <<0, 1>>))
          => (/\ Len(audioPeaks') = 40
              /\ \A k \in 1..40 : NumEq(audioPeaks'[k], <<1, 10>>)) ]_vars

\* the waveform of a silent recording was derived
C14_Witness ==
    /\ lastOp = "waveformDerived"
    /\ recorders[1].clip = "silence"
    /\ ~recorders[1].decoding
    /\ Len(audioPeaks) = 40
    /\ NumEq(audioPeaks[1], <<1, 10>>)
    /\ NumEq(audioPeaks[40], <<1, 10>>)

\* C15: when the clip does not decode, the derivation yields 40 peaks of 0.5
\* and duration 0; the clip read by the FileReader becomes the audio input
\* whatever the decoder did; and a submit with a clip present enters Analyzing.
C15_DecodeFailureIsSoft ==
    [][ /\ \A i \in 1..Len(recorders) :
             (recorders[i].decoding /\ ~recorders'[i].decoding /\ recorders[i].clip = "corrupt")
             => (/\ Len(audioPeaks') = 40
                 /\ \A k \in 1..40 : NumEq(audioPeaks'[k], <<1, 2>>)
                 /\ NumEq(audioDuration', <<0, 1>>))
        /\ \A i \in 1..Len(recorders) :
             (recorders[i].reading /\ ~recorders'[i].reading) => audioBase64' = i
        /\ (lastOp' = "handleAnalysis" /\ audioBase64 # null)
             => (appState' = "ANALYZING" /\ Cardinality(analysisCalls') = 1) ]_vars

\* an undecodable clip, and nothing else, was submitted
C15_Witness ==
    /\ appState = "ANALYZING"
    /\ lastOp = "handleAnalysis"
    /\ textInput = <<>>
    /\ selectedImage = null
    /\ audioBase64 # null
    /\ recorders[audioBase64].clip = "corrupt"
    /\ ~recorders[audioBase64].decoding
    /\ Len(audioPeaks) = 40
    /\ NumEq(audioPeaks[1], <<1, 2>>)
    /\ NumEq(audioDuration, <<0, 1>>)

\* C16 (as claimed): no state has the recording flag false, no stop in
\* progress and a live stream; and right after stopRecording, clearAudio or
\* reset every stream still live belongs to a recorder whose stop is under way.
C16_StreamReleasedOnEveryExit ==
    /\ \A i \in 1..Len(recorders) :
          (recorders[i].live /\ ~isRecording)
          => (recorders[i].phase = "stopping" \/ recorders[i].decoding)
    /\ lastOp \in {"stopRecording", "clearAudio", "reset"}
       => \A i \in 1..Len(recorders) :
             recorders[i].live => (recorders[i].phase = "stopping" \/ recorders[i].decoding)

\* C17: when getUserMedia rejects, the error message is set, the recording
\* flag is not raised, no recorder or stream is created, and the session
\* state, the profile, the chat sequence and the three inputs are unchanged.
C17_MicDenialIsInline ==
    [][ lastOp' = "micDenied"
        => (/\ error' = MicErrorMessage
            /\ isRecording' = isRecording
            /\ recorders' = recorders
            /\ mediaRecorderRef' = mediaRecorderRef
            /\ appState' = appState
            /\ result' = result
            /\ chatMessages' = chatMessages
            /\ textInput' = textInput
            /\ selectedImage' = selectedImage
            /\ audioBase64' = audioBase64) ]_vars

\* the microphone was refused on the input form
C17_Witness ==
    /\ lastOp = "micDenied"
    /\ error = MicErrorMessage
    /\ ~isRecording
    /\ recorders = <<>>
    /\ appState = "IDLE"
    /\ textInput # <<>>

\* C18: stopRecording with the recording flag false changes nothing; with the
\* flag true it clears the flag and stops the recorder; the stop event starts
\* the read and the derivation; the read makes the clip the audio input; the
\* end of the derivation releases the stream, for every clip.
C18_StopFinalizesAndReleases ==
    [][ /\ (lastOp' = "stopRecording" /\ ~isRecording)
           => (recorders' = recorders /\ isRecording' = isRecording
               /\ audioBase64' = audioBase64 /\ audioPeaks' = audioPeaks)
        /\ (lastOp' = "stopRecording" /\ isRecording)
           => (/\ ~isRecording'
               /\ mediaRecorderRef # null
               /\ recorders'[mediaRecorderRef].phase = "stopping")
        /\ \A i \in 1..Len(recorders) :
             /\ (recorders[i].phase = "stopping" /\ recorders'[i].phase # "stopping")
                => (/\ recorders'[i].phase = "stopped"
                    /\ recorders'[i].reading
                    /\ recorders'[i].decoding)
             /\ (recorders[i].reading /\ ~recorders'[i].reading) => audioBase64' = i
             /\ (recorders[i].decoding /\ ~recorders'[i].decoding)
                => (~recorders'[i].live /\ Len(audioPeaks') = 40)
             /\ (recorders[i].phase = "stopped" /\ ~recorders[i].decoding)
                => ~recorders[i].live ]_vars

\* a stopped recording whose clip did not decode: the clip is the audio
\* input and the stream is released
C18_Witness ==
    /\ Len(recorders) > 0
    /\ recorders[1].phase = "stopped"
    /\ recorders[1].clip = "corrupt"
    /\ ~recorders[1].reading
    /\ ~recorders[1].decoding
    /\ ~recorders[1].live
    /\ audioBase64 = 1
    /\ ~isRecording

\* C19 (as claimed): right after clearAudio the clip is none, the peaks are
\* empty, the duration is 0, the playing flag is false and the position is 0
\* (so that a second clearAudio finds nothing left to change).
C19_ClearDiscardsClipAndDuration ==
    lastOp = "clearAudio"
    => (/\ audioBase64 = null
        /\ audioPeaks = <<>>
        /\ NumEq(audioDuration, <<0, 1>>)
        /\ ~isPlaying
        /\ currentTime = 0)

\* C20 (as claimed): when the clip has played to its end and the ended
\* handler and the effects it triggers have run, the playing flag is false and
\* the position is 0.
C20_PositionZeroAfterEnd ==
    lastOp = "handleAudioEnded" => (~isPlaying /\ currentTime = 0)

C22_PlayingOnlyWithClip ==
    isPlaying => (audioBase64 # null /\ audioRef.mounted)

\* C23: the bars painted as played always form a prefix of the waveform, none
\* is painted when the duration is 0, and a step that leaves the waveform and
\* the duration alone and does not decrease currentTime does not decrease the
\* number of played bars.
C23_ColouringIsMonotonic ==
    [][ /\ \A i \in PlayedBars(audioPeaks', currentTime', audioDuration') :
             \A j \in 0..i : j \in PlayedBars(audioPeaks', currentTime', audioDuration')
        /\ NumEq(audioDuration', <<0, 1>>)
             => PlayedBars(audioPeaks', currentTime', audioDuration') = {}
        /\ (audioPeaks' = audioPeaks /\ audioDuration' = audioDuration
             /\ currentTime' >= currentTime)
             => Cardinality(PlayedBars(audioPeaks', currentTime', audioDuration'))
                  >= Cardinality(PlayedBars(audioPeaks, currentTime, audioDuration)) ]_vars

\* half of a two-second clip has been played: the first 20 of 40 bars are
\* painted as played
C23_Witness ==
    /\ lastOp = "animationFrame"
    /\ Len(audioPeaks) = 40
    /\ NumEq(audioDuration, <<2, 1>>)
    /\ currentTime = 1
    /\ PlayedBars(audioPeaks, currentTime, audioDuration) = 0..19

\* C24 (as claimed): when getUserMedia resolves while a clip is loaded, the
\* start of the recording leaves no clip, no peaks and no duration behind.
C24_StartDiscardsOldClip ==
    [][ (lastOp' = "micGranted" /\ audioBase64 # null)
        => (/\ isRecording'
            /\ audioBase64' = null
            /\ audioPeaks' = <<>>
            /\ NumEq(audioDuration', <<0, 1>>)) ]_vars

\* C25 (as claimed): the recording flag and the playing flag are never both
\* true.
C25_RecordingExcludesPlayback ==
    ~(isRecording /\ isPlaying)

\* C26: the session state becomes Idle only by reset; no other step takes it
\* from Analyzing, Results or Error to Idle.
C26_IdleOnlyByReset ==
    [][ (appState # "IDLE" /\ appState' = "IDLE") => lastOp' = "reset" ]_vars

\* a session that had failed once and then reached Results was reset
C26_Witness ==
    /\ lastOp = "reset"
    /\ appState = "IDLE"
    /\ nSubmits = 2
    /\ error = "none"

\* C27 (as claimed): while the session is Analyzing and the analyze call is
\* outstanding, the profile is none, the chat sequence is empty and the error
\* message is none.
C27_AnalyzingStartsClean ==
    (appState = "ANALYZING" /\ \E c \in analysisCalls : c.stage = "analyze")
    => (result = null /\ chatMessages = <<>> /\ error = "none")

\* C28 (as claimed): once analyze has succeeded the session is in Results; it
\* is not held in Analyzing while the image call is outstanding.
C28_ResultsDoesNotWaitForImage ==
    (\E c \in analysisCalls : c.stage = "image") => appState # "ANALYZING"

\* C29 (as claimed): the profile the session holds always has the Profile
\* shape; a response with a missing field, with fewer than 4 or more than 6
\* emotions, or with a score outside 0..100 never becomes the profile.
C29_ProfileIsValidated ==
    result # null => ValidProfile(profiles[result])

\* C30 (as claimed): whenever the session is in Error, the error message is
\* the fixed analysis-failure message.
C30_ErrorCarriesFixedMessage ==
    appState = "ERROR" => error = AnalysisErrorMessage

\* C31: the chat sequence is append-only between clears: every step leaves
\* it as it is, extends it at the end, or empties it, and it is emptied only
\* by a submitted analysis or by reset, each of which always empties it.
C31_ChatIsAppendOnly ==
    [][ /\ \/ IsPrefix(chatMessages, chatMessages')
           \/ /\ chatMessages' = <<>>
              /\ lastOp' \in {"handleAnalysis", "reset"}
        /\ (result # null /\ lastOp' \notin {"handleAnalysis", "reset"})
               => /\ IsPrefix(chatMessages, chatMessages')
                  /\ Len(chatMessages') <= Len(chatMessages) + 1
        /\ lastOp' = "reset" => chatMessages' = <<>>
        /\ (lastOp' = "handleAnalysis" /\ nSubmits' # nSubmits) => chatMessages' = <<>>
      ]_vars

\* a second profile's thread, emptied by the second submission, has grown by
\* a user turn and its reply
C31_Witness ==
    /\ lastOp = "chatResolved"
    /\ result = 2
    /\ nSubmits = 2
    /\ nSends = 2
    /\ Len(chatMessages) = 2
    /\ chatMessages[1].role = "user"
    /\ chatMessages[2].role = "model"

\* C32 (does not hold: handleAnalysis does not look at the recording): the
\* session is never Analyzing while the recording flag is set or a
\* microphone stream is held.
C32_NoAnalyzingWhileRecording ==
    appState = "ANALYZING"
        => /\ ~isRecording
           /\ \A i \in 1..Len(recorders) : ~recorders[i].live

\* C33: the history passed with a chat request is the thread as it was just
\* before the new user turn was appended, every turn in order; the new
\* message is passed next to it and is not in the history, so the prompt
\* that is sent is the thread after the append, turn by turn.
C33_HistoryIsPriorThread ==
    [][ (lastOp' = "handleChatSend" /\ nSends' # nSends)
          => \E c \in chatCalls' \ chatCalls :
                /\ c.id = nSends'
                /\ c.history = chatMessages
                /\ c.message = chatInput
                /\ c.profile = result
                /\ chatMessages' = Append(c.history, [role |-> "user", text |-> c.message])
                /\ fullPrompt(c.history, c.message) = historyText(chatMessages')
      ]_vars

\* a second message is sent after the first was answered: its history holds
\* the first user turn and the reply to it
C33_Witness ==
    /\ lastOp = "handleChatSend"
    /\ nSends = 2
    /\ Len(chatMessages) = 3
    /\ \E c \in chatCalls :
          /\ c.id = 2
          /\ Len(c.history) = 2
          /\ c.history[1].role = "user"
          /\ c.history[2].role = "model"

\* C34 (as claimed): each of the 40 peaks derived from a decoded clip is
\* min(1, max(0.1, mean / max)), mean being the mean of the absolute values
\* of the samples of its bucket and max the largest bucket mean.
C34_PeakIsMeanOverLargest ==
    [][ \A i \in 1..Len(recorders) :
          (/\ recorders[i].decoding
           /\ ~recorders'[i].decoding
           /\ recorders[i].clip # "corrupt")
          => LET x == ChannelData(recorders[i].clip)
             IN  /\ Len(audioPeaks') = 40
                 /\ \A b \in 0..39 :
                       SameValue(audioPeaks'[b + 1], BarOf(MeanOfBucket(x, b), LargestMean(x)))
      ]_vars

\* C34 (amended): the divisor is the largest bucket mean, or 1 when that is
\* zero or not a number; samples at index 40*step and above are not read;
\* and when the largest bucket mean is positive some peak equals 1.
C34_PeakIsMeanOverLargestOrOne ==
    [][ \A i \in 1..Len(recorders) :
          (/\ recorders[i].decoding
           /\ ~recorders'[i].decoding
           /\ recorders[i].clip # "corrupt")
          => LET x == ChannelData(recorders[i].clip)
                 largest == LargestMean(x)
                 divisor == IF IsNaN(largest) \/ NumEq(largest, <<0, 1>>)
                            THEN <<1, 1>> ELSE largest
             IN  /\ Len(audioPeaks') = 40
                 /\ \A b \in 0..39 :
                       SameValue(audioPeaks'[b + 1], BarOf(MeanOfBucket(x, b), divisor))
                 /\ Less(<<0, 1>>, largest)
                       => \E b \in 1..40 : NumEq(audioPeaks'[b], <<1, 1>>)
      ]_vars

\* the waveform of an 85-sample clip was derived: step 2, the five samples
\* at the end left out, quieter buckets at a third of the loudest
C34_Witness ==
    /\ lastOp = "waveformDerived"
    /\ recorders[1].clip = "ragged"
    /\ ~recorders[1].decoding
    /\ Len(audioPeaks) = 40
    /\ NumEq(audioPeaks[1], <<1, 3>>)
    /\ NumEq(audioPeaks[2], <<1, 1>>)
    /\ NumEq(audioPeaks[40], <<1, 1>>)

\* C35 (does not hold: the decode of a stopped recording writes the peaks
\* whenever it completes): non-empty peaks imply a clip is present.
C35_PeaksOnlyWithClip ==
    audioPeaks # <<>> => audioBase64 # null

\* C36 (does not hold: the voice box stays clickable until the first
\* acquisition resolves): at most one microphone stream is held, and a
\* recorder that is still recording is the one stopRecording would stop.
C36_OneStreamHeld ==
    /\ Cardinality({i \in 1..Len(recorders) : recorders[i].live}) <= 1
    /\ \A i \in 1..Len(recorders) :
          (recorders[i].live /\ recorders[i].phase = "recording") => mediaRecorderRef = i

C38_PendingIffOutstanding ==
    isChatLoading <=> (chatCalls # {})

\* C39: if every gateway call eventually returns or fails, a session that
\* is Analyzing eventually is in Results or in Error.
C39_AnalyzingEnds ==
    (appState = "ANALYZING") ~> (appState \in {"RESULTS", "ERROR"})

\* a second analysis, submitted from Error, has left Analyzing for Results
\* although its image call failed
C39_Witness ==
    /\ appState = "RESULTS"
    /\ lastOp = "imageRejected"
    /\ nSubmits = 2
    /\ analysisCalls = {}

====
